---------------------------- MODULE Spec2Model ----------------------------
(***************************************************************************)
(* Model of OpenAPIConverterService                                        *)
(* (src/src/app/services/openapi-converter.service.ts): the converter      *)
(* between Swagger 2 / OpenAPI 3 documents and the mock server's           *)
(* Environment.                                                            *)
(*                                                                         *)
(* Representation.                                                         *)
(*  - A JavaScript string on which the code works character by character   *)
(*    (paths, endpoints, status keys, hosts, urls, header keys) is a       *)
(*    sequence of one-character strings.  A string that the code only      *)
(*    compares or copies (titles, content types, header values) is a TLA+  *)
(*    string.                                                              *)
(*    A character that a TLA+ string cannot hold is written as its code    *)
(*    point, for example "U+00A0", or "U+0060" for the grave accent.       *)
(*  - A JavaScript object used as a map is the sequence of its own         *)
(*    entries [k |-> key, v |-> value] in Object.keys order, keys          *)
(*    distinct.                                                            *)
(*  - An optional property is a record field that is present or not.       *)
(*  - A value that may be undefined/null/number/string is tagged, see      *)
(*    Undefined, Null, StrV, NumV.                                         *)
(*  - A call that may throw returns [threw |-> TRUE, message |-> m] or     *)
(*    [threw |-> FALSE, value |-> v].                                      *)
(***************************************************************************)
EXTENDS Integers, Sequences, FiniteSets, TLC

VARIABLES
    call,        \* the call under observation: [op |-> ..., arg |-> ...]
    ret,         \* what that call returned (for import: what its promise
                 \* resolved with)
    pc,          \* "called" when the call is made, "awaiting" while import
                 \* is suspended at its await, "returned" at the end
    toasts,      \* the notifications sent to ToastsService.addToast so far
    logs,        \* the levels logged through Logger so far
    concurrent   \* the exports that ran while import was suspended

vars == <<call, ret, pc, toasts, logs, concurrent>>

(***************************************************************************)
(* JavaScript values                                                       *)
(***************************************************************************)
Undefined == [t |-> "undefined"]
Null == [t |-> "null"]
StrV(s) == [t |-> "string", s |-> s]
NumV(n) == [t |-> "number", n |-> n]
NaN == [t |-> "NaN"]

Ok(v) == [threw |-> FALSE, value |-> v]
Throw(m) == [threw |-> TRUE, message |-> m]

Digits == <<"0", "1", "2", "3", "4", "5", "6", "7", "8", "9">>
DigitChars == {Digits[i] : i \in 1..10}
DigitVal(c) == (CHOOSE i \in 1..10 : Digits[i] = c) - 1
LowerChars == {"a", "b", "c", "d", "e", "f", "g", "h", "i", "j", "k", "l", "m",
               "n", "o", "p", "q", "r", "s", "t", "u", "v", "w", "x", "y", "z"}
UpperChars == {"A", "B", "C", "D", "E", "F", "G", "H", "I", "J", "K", "L", "M",
               "N", "O", "P", "Q", "R", "S", "T", "U", "V", "W", "X", "Y", "Z"}
\* the class \w of a JavaScript regular expression, which is [a-zA-Z0-9_]
WordChars == LowerChars \cup UpperChars \cup DigitChars \cup {"_"}
\* StrWhiteSpaceChar of ECMAScript, which is also the class \s of a regular
\* expression: TAB, VT, FF, SP, NBSP, ZWNBSP, the space separators (Zs) and
\* the line terminators LF, CR, LS, PS
WhiteSpaceChars ==
    {"\t", "U+000B", "\f", " ", "U+00A0", "U+FEFF", "\n", "\r", "U+2028",
     "U+2029", "U+1680", "U+2000", "U+2001", "U+2002", "U+2003", "U+2004",
     "U+2005", "U+2006", "U+2007", "U+2008", "U+2009", "U+200A", "U+202F",
     "U+205F", "U+3000"}

S_undefined == <<"u", "n", "d", "e", "f", "i", "n", "e", "d">>

\* s.slice(i - 1): the suffix of s from its i-th character (1-based)
From(s, i) == SubSeq(s, i, Len(s))

\* the number of characters at the head of s that are in set cs
RunLength(s, cs) ==
    Cardinality({i \in 1..Len(s) : \A j \in 1..i : s[j] \in cs})

\* s up to, and without, its first character in set stops
UpTo(s, stops) ==
    SubSeq(s, 1, RunLength(s, {s[i] : i \in 1..Len(s)} \ stops))

\* Number.prototype.toString() of a non-negative integer
RECURSIVE NatToString(_)
NatToString(n) ==
    IF n < 10 THEN <<Digits[n + 1]>>
    ELSE NatToString(n \div 10) \o <<Digits[(n % 10) + 1]>>

RECURSIVE DigitsValue(_, _)
DigitsValue(ds, acc) ==
    IF ds = <<>> THEN acc
    ELSE DigitsValue(Tail(ds), 10 * acc + DigitVal(Head(ds)))

\* parseInt(s, 10): leading white space is skipped, one sign is read, then
\* the longest run of decimal digits; what follows the run is ignored, and
\* no digit at all gives NaN.
ParseInt(s) ==
    LET t == From(s, RunLength(s, WhiteSpaceChars) + 1)
        signed == t # <<>> /\ Head(t) \in {"+", "-"}
        u == IF signed THEN Tail(t) ELSE t
        n == RunLength(u, DigitChars)
        m == DigitsValue(SubSeq(u, 1, n), 0)
    IN  IF n = 0 THEN NaN
        ELSE NumV(IF signed /\ Head(t) = "-" THEN 0 - m ELSE m)

\* String.prototype.split(sep) for a one-character separator
RECURSIVE Split(_, _)
Split(s, sep) ==
    LET n == RunLength(s, {c \in {s[i] : i \in 1..Len(s)} : c # sep})
    IN  IF n = Len(s) THEN <<s>>
        ELSE <<SubSeq(s, 1, n)>> \o Split(From(s, n + 2), sep)

\* String.prototype.startsWith(p)
StartsWith(s, p) == Len(s) >= Len(p) /\ SubSeq(s, 1, Len(p)) = p

\* String.prototype.toLowerCase() on the ASCII letters
LowerOf == [c \in UpperChars |->
    CASE c = "A" -> "a" [] c = "B" -> "b" [] c = "C" -> "c" [] c = "D" -> "d"
      [] c = "E" -> "e" [] c = "F" -> "f" [] c = "G" -> "g" [] c = "H" -> "h"
      [] c = "I" -> "i" [] c = "J" -> "j" [] c = "K" -> "k" [] c = "L" -> "l"
      [] c = "M" -> "m" [] c = "N" -> "n" [] c = "O" -> "o" [] c = "P" -> "p"
      [] c = "Q" -> "q" [] c = "R" -> "r" [] c = "S" -> "s" [] c = "T" -> "t"
      [] c = "U" -> "u" [] c = "V" -> "v" [] c = "W" -> "w" [] c = "X" -> "x"
      [] c = "Y" -> "y" [] c = "Z" -> "z"]
ToLowerCase(s) ==
    [i \in 1..Len(s) |-> IF s[i] \in UpperChars THEN LowerOf[s[i]] ELSE s[i]]

(***************************************************************************)
(* Objects as entry sequences                                              *)
(***************************************************************************)
ObjectKeys(o) == [i \in 1..Len(o) |-> o[i].k]
HasKey(o, key) == \E i \in 1..Len(o) : o[i].k = key
ObjGet(o, key) == o[CHOOSE i \in 1..Len(o) : o[i].k = key].v

\* a < b for two decimal texts without leading zero
DecimalLess(a, b) ==
    \/ Len(a) < Len(b)
    \/ /\ Len(a) = Len(b)
       /\ \E i \in 1..Len(a) :
            /\ SubSeq(a, 1, i - 1) = SubSeq(b, 1, i - 1)
            /\ DigitVal(a[i]) < DigitVal(b[i])

\* 2^32 - 1
S_4294967295 == <<"4", "2", "9", "4", "9", "6", "7", "2", "9", "5">>

\* a key that JavaScript enumerates as an integer index: the canonical
\* decimal text (no leading zero) of an integer below 2^32 - 1
IsIndexKey(key) ==
    /\ key # <<>>
    /\ RunLength(key, DigitChars) = Len(key)
    /\ (Head(key) = "0" => Len(key) = 1)
    /\ DecimalLess(key, S_4294967295)

S___proto__ == <<"_", "_", "p", "r", "o", "t", "o", "_", "_">>

\* o[key] = val for an object val, on an object o that inherits from
\* Object.prototype: an existing own key keeps its place; the key __proto__
\* reaches the inherited setter, which changes the prototype and creates no
\* own key; a new integer index goes among the integer indices, which
\* enumerate first and ascending; any other new key goes last
ObjSet(o, key, val) ==
    IF HasKey(o, key)
    THEN [i \in 1..Len(o) |-> IF o[i].k = key THEN [k |-> key, v |-> val] ELSE o[i]]
    ELSE IF key = S___proto__ THEN o
    ELSE IF IsIndexKey(key)
    THEN LET before == {i \in 1..Len(o) :
                            /\ IsIndexKey(o[i].k)
                            /\ DecimalLess(o[i].k, key)}
         IN  SubSeq(o, 1, Cardinality(before))
             \o <<[k |-> key, v |-> val]>>
             \o From(o, Cardinality(before) + 1)
    ELSE Append(o, [k |-> key, v |-> val])

ArrV(a) == [t |-> "array", a |-> a]
ObjV(o) == [t |-> "object", o |-> o]

(***************************************************************************)
(* Collaborators of the service that live in other files of the            *)
(* repository: route.type, utils.lib, schemas-builder.service, errors.enum *)
(***************************************************************************)
\* route.type: the supported status codes (statusCodes[i].code)
statusCodes ==
    {100, 101, 102} \cup (200..208) \cup {226} \cup (300..308) \cup (400..418)
    \cup (421..426) \cup {428, 429, 431, 451} \cup (500..508) \cup {510, 511}

S_get == <<"g", "e", "t">>
S_post == <<"p", "o", "s", "t">>
S_put == <<"p", "u", "t">>
S_patch == <<"p", "a", "t", "c", "h">>
S_delete == <<"d", "e", "l", "e", "t", "e">>
S_head == <<"h", "e", "a", "d">>
S_options == <<"o", "p", "t", "i", "o", "n", "s">>
S_trace == <<"t", "r", "a", "c", "e">>
S_parameters == <<"p", "a", "r", "a", "m", "e", "t", "e", "r", "s">>

\* route.type: the supported methods
methods == {S_get, S_post, S_put, S_patch, S_delete, S_head, S_options}

\* utils.lib: a leading slash is removed
RemoveLeadingSlash(str) ==
    IF str # <<>> /\ Head(str) = "/" THEN Tail(str) ELSE str

S_ContentType == <<"C", "o", "n", "t", "e", "n", "t", "-", "T", "y", "p", "e">>
S_content_type == <<"c", "o", "n", "t", "e", "n", "t", "-", "t", "y", "p", "e">>

\* schemas-builder.service: buildHeader(key, value)
buildHeader(key, value) == [key |-> key, value |-> value]

\* schemas-builder.service: buildRouteResponse(), the fields the converter
\* and the export read
buildRouteResponse ==
    [statusCode |-> 200, label |-> "", headers |-> <<>>, body |-> "{}"]

\* schemas-builder.service: buildRoute(false), a route without a response
buildRoute ==
    [documentation |-> "", method |-> S_get, endpoint |-> <<>>, responses |-> <<>>]

DefaultPort == 3000

\* schemas-builder.service: buildEnvironment(false, false), an environment
\* without a default route and without a default header
buildEnvironment ==
    [name |-> "New environment", port |-> DefaultPort,
     endpointPrefix |-> StrV(<<>>), https |-> FALSE,
     headers |-> <<>>, routes |-> <<>>]

\* utils.lib: the value of the last Content-Type header of the environment's
\* headers followed by the response's, undefined when there is none
GetRouteResponseContentType(environment, routeResponse) ==
    LET all == environment.headers \o routeResponse.headers
        at == {i \in 1..Len(all) : ToLowerCase(all[i].key) = S_content_type}
    IN  IF at = {} THEN Undefined
        ELSE StrV(all[CHOOSE i \in at : \A j \in at : j <= i].value)

\* errors.enum: the texts of the two messages, each written as its name
IMPORT_WRONG_VERSION ==
    <<"I", "M", "P", "O", "R", "T", "_", "W", "R", "O", "N", "G", "_", "V",
      "E", "R", "S", "I", "O", "N">>
IMPORT_ERROR ==
    <<"I", "M", "P", "O", "R", "T", "_", "E", "R", "R", "O", "R">>

(***************************************************************************)
(* The message of the TypeError that V8 raises                             *)
(***************************************************************************)
S_CannotReadUndefined ==
    <<"C", "a", "n", "n", "o", "t", " ", "r", "e", "a", "d", " ", "p", "r",
      "o", "p", "e", "r", "t", "i", "e", "s", " ", "o", "f", " ", "u", "n",
      "d", "e", "f", "i", "n", "e", "d", " ", "(", "r", "e", "a", "d", "i",
      "n", "g", " ", "'">>
S_CannotReadNull ==
    <<"C", "a", "n", "n", "o", "t", " ", "r", "e", "a", "d", " ", "p", "r",
      "o", "p", "e", "r", "t", "i", "e", "s", " ", "o", "f", " ", "n", "u",
      "l", "l", " ", "(", "r", "e", "a", "d", "i", "n", "g", " ", "'">>
S_IsNotAFunction ==
    <<" ", "i", "s", " ", "n", "o", "t", " ", "a", " ", "f", "u", "n", "c",
      "t", "i", "o", "n">>
S_default ==
    <<"d", "e", "f", "a", "u", "l", "t">>
S_replace ==
    <<"r", "e", "p", "l", "a", "c", "e">>
S_startsWith ==
    <<"s", "t", "a", "r", "t", "s", "W", "i", "t", "h">>
S_parsedAPI_openapi ==
    <<"p", "a", "r", "s", "e", "d", "A", "P", "I", ".", "o", "p", "e", "n",
      "a", "p", "i">>

\* reading property name of undefined, of null
ReadOfUndefined(name) == S_CannotReadUndefined \o name \o <<"'", ")">>
ReadOfNull(name) == S_CannotReadNull \o name \o <<"'", ")">>
\* calling callee.name when it is undefined
NotAFunction(callee, name) == callee \o <<".">> \o name \o S_IsNotAFunction

(***************************************************************************)
(* parametersReplace                                                       *)
(***************************************************************************)
\* String(v) of a string or of undefined
StringOf(v) == IF v.t = "undefined" THEN S_undefined ELSE v.s

\* the properties that an object inherits from Object.prototype and whose
\* name is made of word characters: each is a function, or, for __proto__,
\* the prototype object
ObjectPrototypeNames ==
    {S___proto__,
     <<"c", "o", "n", "s", "t", "r", "u", "c", "t", "o", "r">>,
     <<"h", "a", "s", "O", "w", "n", "P", "r", "o", "p", "e", "r", "t", "y">>,
     <<"i", "s", "P", "r", "o", "t", "o", "t", "y", "p", "e", "O", "f">>,
     <<"p", "r", "o", "p", "e", "r", "t", "y", "I", "s", "E", "n", "u", "m", "e", "r", "a", "b", "l", "e">>,
     <<"t", "o", "L", "o", "c", "a", "l", "e", "S", "t", "r", "i", "n", "g">>,
     <<"t", "o", "S", "t", "r", "i", "n", "g">>,
     <<"v", "a", "l", "u", "e", "O", "f">>,
     <<"_", "_", "d", "e", "f", "i", "n", "e", "G", "e", "t", "t", "e", "r", "_", "_">>,
     <<"_", "_", "d", "e", "f", "i", "n", "e", "S", "e", "t", "t", "e", "r", "_", "_">>,
     <<"_", "_", "l", "o", "o", "k", "u", "p", "G", "e", "t", "t", "e", "r", "_", "_">>,
     <<"_", "_", "l", "o", "o", "k", "u", "p", "S", "e", "t", "t", "e", "r", "_", "_">>}

\* the callback of parametersReplace for SERVER_VARIABLES:
\* parameters[replaceValue].default.  parameters[replaceValue] is a plain
\* property read: an own key gives the declared variable, a name of
\* ObjectPrototypeNames the inherited value, which has no default, any other
\* name undefined; reading a property of undefined throws a TypeError.
ServerVariableDefault(parameters, replaceValue) ==
    IF parameters.t = "undefined" THEN Throw(ReadOfUndefined(replaceValue))
    ELSE IF HasKey(parameters.o, replaceValue)
    THEN LET variable == ObjGet(parameters.o, replaceValue)
         IN  IF "default" \in DOMAIN variable
             THEN Ok(StrV(variable.default)) ELSE Ok(Undefined)
    ELSE IF replaceValue \in ObjectPrototypeNames THEN Ok(Undefined)
    ELSE Throw(ReadOfUndefined(S_default))

\* a callback that prefixes the whole match instead of the captured name
ReplaceCallback_WholeMatch(parametersType, parameters, replaceValue) ==
    IF parametersType = "PATH_PARAMETERS"
    THEN Ok(StrV(<<":", "{">> \o replaceValue \o <<"}">>))
    ELSE ServerVariableDefault(parameters, replaceValue)

\* the callback of parametersReplace
ReplaceCallback(parametersType, parameters, replaceValue) ==
    IF parametersType = "PATH_PARAMETERS" THEN Ok(StrV(<<":">> \o replaceValue))
    ELSE ServerVariableDefault(parameters, replaceValue)

\* str.replace(/{(\w+)}/gi, callback): every "{", one or more word
\* characters, "}" is replaced, left to right; a throwing callback ends the
\* call.
RECURSIVE parametersReplace(_, _, _)

\* the text before, then the replaced rest
ReplacedAfter(before, rest) ==
    IF rest.threw THEN rest ELSE Ok(before \o rest.value)

\* str begins with "{" and n word characters: with a "}" after them the
\* callback's result r takes their place, otherwise the "{" stays
ReplacedAtBrace(str, n, parametersType, parameters) ==
    IF n >= 1 /\ Len(str) >= n + 2 /\ str[n + 2] = "}"
    THEN LET r == ReplaceCallback(parametersType, parameters,
                                  SubSeq(str, 2, n + 1))
         IN  IF r.threw THEN r
             ELSE ReplacedAfter(StringOf(r.value),
                                parametersReplace(From(str, n + 3),
                                                  parametersType, parameters))
    ELSE ReplacedAfter(<<"{">>,
                       parametersReplace(Tail(str), parametersType, parameters))

parametersReplace(str, parametersType, parameters) ==
    IF str = <<>> THEN Ok(<<>>)
    ELSE IF Head(str) # "{"
    THEN ReplacedAfter(UpTo(str, {"{"}),
                       parametersReplace(From(str, Len(UpTo(str, {"{"})) + 1),
                                         parametersType, parameters))
    ELSE ReplacedAtBrace(str, RunLength(Tail(str), WordChars),
                         parametersType, parameters)

(***************************************************************************)
(* buildResponseHeaders                                                    *)
(***************************************************************************)
\* a check that looks at the first content type only
OverridesContentType_FirstOnly(contentTypes) ==
    /\ contentTypes.t # "undefined"
    /\ Len(contentTypes.a) # 0
    /\ contentTypes.a[1] # "application/json"

\* contentTypes && contentTypes.length && !contentTypes.includes(json)
OverridesContentType(contentTypes) ==
    /\ contentTypes.t # "undefined"
    /\ Len(contentTypes.a) # 0
    /\ \A i \in 1..Len(contentTypes.a) : contentTypes.a[i] # "application/json"

buildResponseHeaders(contentTypes, responseHeaders) ==
    LET routeContentTypeHeader ==
            buildHeader(S_ContentType,
                        IF OverridesContentType(contentTypes)
                        THEN contentTypes.a[1] ELSE "application/json")
    IN  IF responseHeaders.t # "undefined"
        THEN <<routeContentTypeHeader>>
             \o [i \in 1..Len(responseHeaders.o) |->
                    buildHeader(ObjectKeys(responseHeaders.o)[i], "")]
        ELSE <<routeContentTypeHeader>>

(***************************************************************************)
(* createRoutes                                                            *)
(***************************************************************************)
\* statusCodes.find((statusCode) => statusCode.code === parseInt(key, 10))
IsSupportedStatus(responseStatus) ==
    LET parsed == ParseInt(responseStatus)
    IN  parsed.t = "number" /\ parsed.n \in statusCodes

\* the content types handed to buildResponseHeaders for one response
ContentTypeHeaders(parsedRoute, routeResponse, version) ==
    IF version = "SWAGGER"
    THEN IF "produces" \in DOMAIN parsedRoute
         THEN ArrV(parsedRoute.produces) ELSE Undefined
    ELSE IF "content" \in DOMAIN routeResponse
         THEN ArrV(ObjectKeys(routeResponse.content)) ELSE ArrV(<<>>)

\* the response pushed for one retained status key
ImportedResponse(parsedRoute, entry, version) ==
    [buildRouteResponse EXCEPT
        !.body = "",
        !.statusCode = ParseInt(entry.k).n,
        !.label = IF "description" \in DOMAIN entry.v
                  THEN entry.v.description ELSE "",
        !.headers = buildResponseHeaders(
                        ContentTypeHeaders(parsedRoute, entry.v, version),
                        IF "headers" \in DOMAIN entry.v
                        THEN ObjV(entry.v.headers) ELSE Undefined)]

\* the response pushed when no status key was retained
FallbackResponses ==
    <<[buildRouteResponse EXCEPT
        !.headers = <<buildHeader(S_ContentType, "application/json")>>]>>

\* a createRoutes that forgets the fallback response
AtLeastOneResponse_NoFallback(routeResponses) == routeResponses

\* routeResponses after the "at least one response" check
AtLeastOneResponse(routeResponses) ==
    IF Len(routeResponses) = 0 THEN FallbackResponses ELSE routeResponses

\* routeResponses of one operation
RouteResponses(parsedRoute, version) ==
    LET Supported(entry) == IsSupportedStatus(entry.k)
        retained == SelectSeq(parsedRoute.responses, Supported)
    IN  AtLeastOneResponse(
            [i \in 1..Len(retained) |->
                ImportedResponse(parsedRoute, retained[i], version)])

\* parsedRoute.summary || parsedRoute.description || ''
Documentation(parsedRoute) ==
    IF "summary" \in DOMAIN parsedRoute /\ parsedRoute.summary # ""
    THEN parsedRoute.summary
    ELSE IF "description" \in DOMAIN parsedRoute /\ parsedRoute.description # ""
    THEN parsedRoute.description
    ELSE ""

\* the endpoint of the route imported from path key routePath
ImportedEndpoint(routePath) ==
    RemoveLeadingSlash(
        parametersReplace(routePath, "PATH_PARAMETERS", Undefined).value)

NewRoute(routePath, routeMethod, parsedRoute, version) ==
    [buildRoute EXCEPT
        !.documentation = Documentation(parsedRoute),
        !.method = routeMethod,
        !.endpoint = ImportedEndpoint(routePath),
        !.responses = RouteResponses(parsedRoute, version)]

RECURSIVE Flatten(_)
Flatten(ss) == IF ss = <<>> THEN <<>> ELSE Head(ss) \o Flatten(Tail(ss))

\* the routes of one path item, in Object.keys order of its methods
PathRoutes(pathEntry, version) ==
    LET Recognised(m) == m.k \in methods
        ops == SelectSeq(pathEntry.v, Recognised)
    IN  [i \in 1..Len(ops) |->
            NewRoute(pathEntry.k, ops[i].k, ops[i].v, version)]

createRoutes(parsedAPI, version) ==
    Flatten([i \in 1..Len(parsedAPI.paths) |->
                PathRoutes(parsedAPI.paths[i], version)])

(***************************************************************************)
(* convertFromSwagger                                                      *)
(***************************************************************************)
\* parsedAPI.host && parseInt(parsedAPI.host.split(':')[1], 10)
\*   || newEnvironment.port
SwaggerPort(parsedAPI, defaultPort) ==
    IF "host" \in DOMAIN parsedAPI /\ parsedAPI.host # <<>>
    THEN LET parts == Split(parsedAPI.host, ":")
             segment == IF Len(parts) >= 2 THEN parts[2] ELSE S_undefined
             parsed == ParseInt(segment)
         IN  IF parsed.t = "number" /\ parsed.n # 0 THEN parsed.n
             ELSE defaultPort
    ELSE defaultPort

\* info.title || fallback
ImportedName(parsedAPI, fallback) ==
    IF "title" \in DOMAIN parsedAPI.info /\ parsedAPI.info.title # ""
    THEN parsedAPI.info.title ELSE fallback

convertFromSwagger(parsedAPI) ==
    LET newEnvironment == buildEnvironment
    IN  [newEnvironment EXCEPT
            !.port = SwaggerPort(parsedAPI, newEnvironment.port),
            !.endpointPrefix =
                IF "basePath" \in DOMAIN parsedAPI /\ parsedAPI.basePath # <<>>
                THEN StrV(RemoveLeadingSlash(parsedAPI.basePath))
                ELSE newEnvironment.endpointPrefix,
            !.name = ImportedName(parsedAPI, "Swagger import"),
            !.routes = createRoutes(parsedAPI, "SWAGGER")]

(***************************************************************************)
(* convertFromOpenAPIV3                                                    *)
(***************************************************************************)
\* the characters of protocolPattern, /^[a-z0-9.+-]+:/i
SchemeChars == LowerChars \cup UpperChars \cup DigitChars \cup {"+", "-", "."}

\* the characters that url.parse trims at both ends: every code unit up to
\* U+0020 (the C0 controls and the space), U+00A0 and U+FEFF
UrlWhiteSpaceChars ==
    {"U+0000", "U+0001", "U+0002", "U+0003", "U+0004", "U+0005", "U+0006",
     "U+0007", "U+0008", "\t", "\n", "U+000B", "\f", "\r", "U+000E", "U+000F",
     "U+0010", "U+0011", "U+0012", "U+0013", "U+0014", "U+0015", "U+0016",
     "U+0017", "U+0018", "U+0019", "U+001A", "U+001B", "U+001C", "U+001D",
     "U+001E", "U+001F", " ", "U+00A0", "U+FEFF"}

RECURSIVE TrimEnd(_)
TrimEnd(s) ==
    IF s # <<>> /\ s[Len(s)] \in UrlWhiteSpaceChars
    THEN TrimEnd(SubSeq(s, 1, Len(s) - 1)) ELSE s

UrlTrim(s) == TrimEnd(From(s, RunLength(s, UrlWhiteSpaceChars) + 1))

\* a back slash before the first "?" or "#" becomes a slash
BackSlashesToSlashes(s) ==
    LET n == Len(UpTo(s, {"?", "#"}))
    IN  [i \in 1..Len(s) |-> IF i <= n /\ s[i] = "\\" THEN "/" ELSE s[i]]

\* simplePathPattern, /^(\/\/?(?!\/)[^?\s]*)(\?[^\s]*)?$/, tried on a url
\* without "#": one or two slashes, not three, and no white space
IsSimplePath(rest) ==
    /\ rest # <<>>
    /\ Head(rest) = "/"
    /\ ~StartsWith(rest, <<"/", "/", "/">>)
    /\ \A i \in 1..Len(rest) : rest[i] \notin WhiteSpaceChars \cup {"#"}

S_javascript == <<"j", "a", "v", "a", "s", "c", "r", "i", "p", "t", ":">>
hostlessProtocol == {S_javascript}
unsafeProtocol == {S_javascript}
slashedProtocol ==
    {<<"h", "t", "t", "p", ":">>,
     <<"h", "t", "t", "p", "s", ":">>,
     <<"f", "t", "p", ":">>,
     <<"g", "o", "p", "h", "e", "r", ":">>,
     <<"f", "i", "l", "e", ":">>,
     <<"w", "s", ":">>,
     <<"w", "s", "s", ":">>}

\* the characters that end the host: those never allowed in a host name,
\* and "#", "/", "?"
NonHostChars ==
    {" ", "\"", "%", "'", ";", "<", ">", "\\", "^", "U+0060",
     "{", "|", "}", "#", "/", "?"}

\* the characters that are removed from the host part
RemovedHostChars == {"\t", "\n", "\r"}

\* rest without the tabs, line feeds and carriage returns that precede its
\* first "/", "?" or "#"
RemoveFromHostPart(rest) ==
    LET n == Len(UpTo(rest, {"/", "?", "#"}))
        Kept(c) == c \notin RemovedHostChars
    IN  SelectSeq(SubSeq(rest, 1, n), Kept) \o From(rest, n + 1)

\* parseHost: the host without its port, a last ":" followed by digits
\* only (portPattern, /:[0-9]*$/)
HostWithoutPort(host) ==
    LET colons == {i \in 1..Len(host) : host[i] = ":"}
        last == CHOOSE i \in colons : \A j \in colons : j <= i
    IN  IF colons # {}
           /\ RunLength(From(host, last + 1), DigitChars) = Len(host) - last
        THEN SubSeq(host, 1, last - 1) ELSE host

\* autoEscapeStr: the characters that url.parse always percent-escapes
AutoEscapeChars ==
    {"\t", "\n", "\r", " ", "\"", "'", "<", ">", "\\", "^", "U+0060", "{", "|", "}"}
AutoEscape(c) ==
    CASE c = "\t" -> <<"%", "0", "9">> [] c = "\n" -> <<"%", "0", "A">>
      [] c = "\r" -> <<"%", "0", "D">> [] c = " " -> <<"%", "2", "0">>
      [] c = "\"" -> <<"%", "2", "2">> [] c = "'" -> <<"%", "2", "7">>
      [] c = "<" -> <<"%", "3", "C">> [] c = ">" -> <<"%", "3", "E">>
      [] c = "\\" -> <<"%", "5", "C">> [] c = "^" -> <<"%", "5", "E">>
      [] c = "U+0060" -> <<"%", "6", "0">> [] c = "{" -> <<"%", "7", "B">>
      [] c = "|" -> <<"%", "7", "C">> [] c = "}" -> <<"%", "7", "D">>
AutoEscapeStr(s) ==
    Flatten([i \in 1..Len(s) |->
                IF s[i] \in AutoEscapeChars THEN AutoEscape(s[i]) ELSE <<s[i]>>])

\* protocolPattern: the protocol at the head of rest with its ":", the
\* empty string when there is none
UrlProtocol(rest) ==
    LET k == RunLength(rest, SchemeChars)
    IN  IF k >= 1 /\ Len(rest) > k /\ rest[k + 1] = ":"
        THEN SubSeq(rest, 1, k + 1) ELSE <<>>

\* isIpv6Hostname: the host name is held between "[" and "]"
isIpv6Hostname(hostname) ==
    /\ hostname # <<>>
    /\ Head(hostname) = "["
    /\ hostname[Len(hostname)] = "]"

\* the longest host name that is kept
hostnameMaxLen == 255

\* forbiddenHostChars, /[\0\t\n\r #%/:<>?@[\\\]^|]/, and
\* forbiddenHostCharsIpv6, /[\0\t\n\r #%/<>?@\\^|]/
forbiddenHostChars ==
    {"U+0000", "\t", "\n", "\r", " ", "#", "%", "/", ":", "<", ">", "?", "@",
     "[", "\\", "]", "^", "|"}
forbiddenHostCharsIpv6 ==
    {"U+0000", "\t", "\n", "\r", " ", "#", "%", "/", "<", ">", "?", "@",
     "\\", "^", "|"}

\* the message of ERR_INVALID_URL
S_InvalidURL == <<"I", "n", "v", "a", "l", "i", "d", " ", "U", "R", "L">>

\* the parameters of punycode (RFC 3492), and the largest 32-bit integer
PunycodeBase == 36
PunycodeTMin == 1
PunycodeTMax == 26
PunycodeSkew == 38
PunycodeDamp == 700
PunycodeInitialBias == 72
PunycodeInitialN == 128
MaxInt32 == 2147483647

LowerLetters ==
    <<"a", "b", "c", "d", "e", "f", "g", "h", "i", "j", "k", "l", "m",
      "n", "o", "p", "q", "r", "s", "t", "u", "v", "w", "x", "y", "z">>

\* the value of a punycode digit: a to z are 0 to 25, 0 to 9 are 26 to 35,
\* any other character is none (-1)
PunycodeDigit(c) ==
    IF c \in LowerChars THEN (CHOOSE i \in 1..26 : LowerLetters[i] = c) - 1
    ELSE IF c \in DigitChars THEN 26 + DigitVal(c)
    ELSE 0 - 1

\* the bias adaptation of punycode
RECURSIVE PunycodeAdaptLoop(_, _)
PunycodeAdaptLoop(d, k) ==
    IF d > ((PunycodeBase - PunycodeTMin) * PunycodeTMax) \div 2
    THEN PunycodeAdaptLoop(d \div (PunycodeBase - PunycodeTMin), k + PunycodeBase)
    ELSE k + ((PunycodeBase - PunycodeTMin + 1) * d) \div (d + PunycodeSkew)
PunycodeAdapt(delta, numPoints, firstTime) ==
    LET d == IF firstTime THEN delta \div PunycodeDamp ELSE delta \div 2
    IN  PunycodeAdaptLoop(d + d \div numPoints, 0)

\* the threshold of the digit at position k
PunycodeThreshold(k, bias) ==
    IF k <= bias THEN PunycodeTMin
    ELSE IF k >= bias + PunycodeTMax THEN PunycodeTMax
    ELSE k - bias

\* one variable-length integer at the head of input, added to i with the
\* weight w at the threshold position k: the new i and the input left, or
\* a failure on a character that is no digit, on the end of input or on an
\* overflow
RECURSIVE PunycodeInteger(_, _, _, _, _)
RECURSIVE PunycodeDigitRead(_, _, _, _, _, _, _)
PunycodeDigitRead(digit, t, input, i, w, k, bias) ==
    IF digit < 0 THEN [ok |-> FALSE]
    ELSE IF digit > (MaxInt32 - i) \div w THEN [ok |-> FALSE]
    ELSE IF digit < t THEN [ok |-> TRUE, i |-> i + digit * w, input |-> input]
    ELSE IF w > MaxInt32 \div (PunycodeBase - t) THEN [ok |-> FALSE]
    ELSE PunycodeInteger(input, i + digit * w, w * (PunycodeBase - t),
                         k + PunycodeBase, bias)
PunycodeInteger(input, i, w, k, bias) ==
    IF input = <<>> THEN [ok |-> FALSE]
    ELSE PunycodeDigitRead(PunycodeDigit(Head(input)),
                           PunycodeThreshold(k, bias), Tail(input), i, w, k,
                           bias)

\* the code points that the punycode digits of input insert, in the order
\* of their insertion, after written code points were written: each
\* integer read advances the code point n by its quotient by the number of
\* places and leaves its remainder as the place of insertion
RECURSIVE PunycodePoints(_, _, _, _, _)
PunycodePrepend(point, more) ==
    IF ~more.ok THEN [ok |-> FALSE]
    ELSE [ok |-> TRUE, points |-> <<point>> \o more.points]
PunycodeInsert(read, n, i, written) ==
    IF ~read.ok THEN [ok |-> FALSE]
    ELSE IF read.i \div (written + 1) > MaxInt32 - n THEN [ok |-> FALSE]
    ELSE PunycodePrepend(
            n + read.i \div (written + 1),
            PunycodePoints(read.input, n + read.i \div (written + 1),
                           (read.i % (written + 1)) + 1,
                           PunycodeAdapt(read.i - i, written + 1, i = 0),
                           written + 1))
PunycodePoints(input, n, i, bias, written) ==
    IF input = <<>> THEN [ok |-> TRUE, points |-> <<>>]
    ELSE PunycodeInsert(PunycodeInteger(input, i, 1, PunycodeBase, bias),
                        n, i, written)

\* the code points from U+0080 to U+00FF that the IDNA mapping table has as
\* valid (neither disallowed, mapped nor ignored); all are in normalization
\* form C and none is a combining mark
ValidLatin1Points ==
    (161..167) \cup {169, 171, 172, 174, 176, 177, 182, 183, 187, 191, 215}
        \cup (223..255)

\* String.prototype.lastIndexOf(c), 1-based, 0 when c is not in s
LastIndexOf(s, c) ==
    IF \A i \in 1..Len(s) : s[i] # c THEN 0
    ELSE CHOOSE i \in 1..Len(s) :
            s[i] = c /\ \A j \in (i + 1)..Len(s) : s[j] # c

\* the number of characters of a punycode segment that stand for
\* themselves: those before its last "-"
PunycodeBasicLength(lastDash) == IF lastDash = 0 THEN 0 ELSE lastDash - 1

\* the code points that a punycode segment adds to the characters before
\* its last "-"
PunycodeDecode(segment, lastDash) ==
    PunycodePoints(From(segment, lastDash + 1), PunycodeInitialN, 0,
                   PunycodeInitialBias, PunycodeBasicLength(lastDash))

\* the decoded text, basic characters that stand for themselves and the
\* code points added to them, is not empty and is a valid label that
\* mapping and normalization leave as it is; the characters of ASCII are
\* valid.  (Labels that decode to a character above U+00FF are not among
\* the inputs.)
IsValidDecodedLabel(decoded, basic) ==
    /\ decoded.ok
    /\ basic + Len(decoded.points) > 0
    /\ \A j \in 1..Len(decoded.points) :
            decoded.points[j] <= 255 => decoded.points[j] \in ValidLatin1Points

\* a label that begins with "xn--" passes when its punycode can be decoded
\* to such a text
IsValidPunycodeLabel(label) ==
    IsValidDecodedLabel(
        PunycodeDecode(From(label, 5), LastIndexOf(From(label, 5), "-")),
        PunycodeBasicLength(LastIndexOf(From(label, 5), "-")))

\* toASCII of a lower-case ASCII host name: the empty string when a label
\* that begins with "xn--" does not pass, otherwise the name, which the
\* binding hands back as a C string, up to its first U+0000
toASCII(hostname) ==
    IF \A j \in 1..Len(Split(hostname, ".")) :
            StartsWith(Split(hostname, ".")[j], <<"x", "n", "-", "-">>)
                => IsValidPunycodeLabel(Split(hostname, ".")[j])
    THEN UpTo(hostname, {"U+0000"})
    ELSE <<>>

\* getHostname: the length of the host name in the host without port, which
\* ends at its first ":" unless it is an IPv6 literal
HostnameLength(named) ==
    IF isIpv6Hostname(named) THEN Len(named) ELSE Len(UpTo(named, {":"}))

\* the host name of the first n characters of named and what follows it:
\* the characters of named after the host name are given back to the path
\* after a "/"
UrlHostSplit(cleaned, host, named, n) ==
    [ipv6 |-> isIpv6Hostname(named),
     hostname |-> SubSeq(named, 1, n),
     rest |-> (IF n < Len(named) THEN <<"/">> \o From(named, n + 1) ELSE <<>>)
              \o From(cleaned, Len(host) + 1)]

\* parseHost removes the port of the host
UrlHostEnded(cleaned, host) ==
    UrlHostSplit(cleaned, host, HostWithoutPort(host),
                 HostnameLength(HostWithoutPort(host)))

\* the host ends at the first of NonHostChars
UrlHostCleaned(cleaned) == UrlHostEnded(cleaned, UpTo(cleaned, NonHostChars))

\* the host at the head of rest and what follows it, once tabs, line feeds
\* and carriage returns are removed from the host part
UrlHostParts(rest) == UrlHostCleaned(RemoveFromHostPart(rest))

\* s has a character of set cs
HasAnyOf(s, cs) == \E i \in 1..Len(s) : s[i] \in cs

\* an IPv6 literal is kept without its brackets, unless it has a forbidden
\* character
UrlIpv6Hostname(lower) ==
    IF HasAnyOf(lower, forbiddenHostCharsIpv6) THEN Throw(S_InvalidURL)
    ELSE Ok(SubSeq(lower, 2, Len(lower) - 1))

\* the name that toASCII gives is kept, unless it is empty or has a
\* forbidden character
UrlAsciiHostname(ascii) ==
    IF ascii = <<>> \/ HasAnyOf(ascii, forbiddenHostChars)
    THEN Throw(S_InvalidURL)
    ELSE Ok(ascii)

\* the host name as url.parse keeps it: empty when longer than
\* hostnameMaxLen, otherwise in lower case, an IPv6 literal without its
\* brackets and any other name after toASCII; ERR_INVALID_URL is thrown on
\* a forbidden character and on a name that toASCII gives back empty
UrlHostname(ipv6, hostname) ==
    IF Len(hostname) > hostnameMaxLen \/ hostname = <<>> THEN Ok(<<>>)
    ELSE IF ipv6 THEN UrlIpv6Hostname(ToLowerCase(hostname))
    ELSE UrlAsciiHostname(toASCII(ToLowerCase(hostname)))

\* what follows the host begins with a "/" after an IPv6 literal
UrlHostChecked(parts, hostname) ==
    IF hostname.threw THEN hostname
    ELSE Ok([hostname |-> hostname.value,
             rest |-> IF parts.ipv6 /\ ~StartsWith(parts.rest, <<"/">>)
                      THEN <<"/">> \o parts.rest ELSE parts.rest])
UrlHostValidated(parts) ==
    UrlHostChecked(parts, UrlHostname(parts.ipv6, parts.hostname))

\* the host name at the head of rest and what follows the host, or the
\* error thrown on the host name
UrlHost(rest) == UrlHostValidated(UrlHostParts(rest))

\* the path of what follows the host: rest is percent-escaped and split at
\* "#" and at "?"; a slashed protocol with a host name has the pathname "/"
\* when rest gives none; path is null without pathname and query string
UrlPath(lowerProto, hostname, rest) ==
    LET escaped == IF lowerProto \in unsafeProtocol THEN rest
                   ELSE AutoEscapeStr(rest)
        noHash == UpTo(escaped, {"#"})
        given == UpTo(noHash, {"?"})
        search == From(noHash, Len(given) + 1)
        pathname == IF lowerProto \in slashedProtocol /\ hostname # <<>>
                       /\ given = <<>>
                    THEN <<"/">> ELSE given
    IN  IF pathname = <<>> /\ search = <<>> THEN Null
        ELSE StrV(pathname \o search)

\* the path of what follows a host, unless reading the host has thrown
UrlPathAfterHost(lowerProto, host) ==
    IF host.threw THEN host
    ELSE Ok(UrlPath(lowerProto, host.value.hostname, host.value.rest))

\* the path of a url that is no simple path, from its protocol on: a host
\* is read after "//" or after a protocol that is not a slashed one
UrlPathAfterProtocol(proto, rest) ==
    LET lowerProto == ToLowerCase(proto)
        slashes == proto # <<>> /\ StartsWith(rest, <<"/", "/">>)
        afterSlashes == IF slashes /\ lowerProto \notin hostlessProtocol
                        THEN From(rest, 3) ELSE rest
        hasHost == /\ lowerProto \notin hostlessProtocol
                   /\ (slashes \/ (proto # <<>> /\ proto \notin slashedProtocol))
    IN  IF hasHost THEN UrlPathAfterHost(lowerProto, UrlHost(afterSlashes))
        ELSE Ok(UrlPath(lowerProto, <<>>, afterSlashes))

\* url.parse(u).path of Node's url module (as of Node 18 to 22): the path,
\* null when the url has neither a pathname nor a query string, or the
\* error that url.parse throws on the host name.  The url is trimmed and
\* its back slashes converted; a simple path is taken as it is; otherwise
\* the protocol, the host and the path are read in turn.  (Urls with "@"
\* or characters outside ASCII, which bring in credentials and the
\* encoding of internationalized names, are not among the inputs.)
UrlParsePath(u) ==
    LET rest == BackSlashesToSlashes(UrlTrim(u))
    IN  IF IsSimplePath(rest) THEN Ok(StrV(rest))
        ELSE UrlPathAfterProtocol(UrlProtocol(rest),
                                  From(rest, Len(UrlProtocol(rest)) + 1))

\* RemoveLeadingSlash(urlParse(...).path): urlParse may have thrown, and
\* RemoveLeadingSlash reads str.replace, which throws on null
PrefixOfPath(path) ==
    IF path.threw THEN path
    ELSE IF path.value = Null THEN Throw(ReadOfNull(S_replace))
    ELSE Ok(StrV(RemoveLeadingSlash(path.value.s)))

\* server && server[0] && server[0].url && RemoveLeadingSlash(...)
ServerPrefix(parsedAPI) ==
    IF "servers" \notin DOMAIN parsedAPI THEN Ok(Undefined)
    ELSE IF Len(parsedAPI.servers) = 0 THEN Ok(Undefined)
    ELSE IF "url" \notin DOMAIN parsedAPI.servers[1] THEN Ok(Undefined)
    ELSE IF parsedAPI.servers[1].url = <<>> THEN Ok(StrV(<<>>))
    ELSE LET server == parsedAPI.servers[1]
             replaced == parametersReplace(
                             server.url, "SERVER_VARIABLES",
                             IF "variables" \in DOMAIN server
                             THEN ObjV(server.variables) ELSE Undefined)
         IN  IF replaced.threw THEN replaced
             ELSE PrefixOfPath(UrlParsePath(replaced.value))

convertFromOpenAPIV3(parsedAPI) ==
    LET newEnvironment == buildEnvironment
        prefix == ServerPrefix(parsedAPI)
    IN  IF prefix.threw THEN prefix
        ELSE Ok([newEnvironment EXCEPT
                    !.endpointPrefix = prefix.value,
                    !.name = ImportedName(parsedAPI, "OpenAPI import"),
                    !.routes = createRoutes(parsedAPI, "OPENAPI_V3")])

(***************************************************************************)
(* import                                                                  *)
(***************************************************************************)
isSwagger(parsedAPI) == "swagger" \in DOMAIN parsedAPI

\* parsedAPI.openapi !== undefined && parsedAPI.openapi.startsWith('3.'):
\* null has no property to read and a number has no startsWith
isOpenAPIV3(parsedAPI) ==
    IF "openapi" \notin DOMAIN parsedAPI THEN Ok(FALSE)
    ELSE IF parsedAPI.openapi.t = "null"
    THEN Throw(ReadOfNull(S_startsWith))
    ELSE IF parsedAPI.openapi.t # "string"
    THEN Throw(NotAFunction(S_parsedAPI_openapi, S_startsWith))
    ELSE Ok(StartsWith(parsedAPI.openapi.s, <<"3", ".">>))

Toast(type, message) == [type |-> type, message |-> message]

\* import's catch block: the toast `${Errors.IMPORT_ERROR}: ${error.message}`
\* and an error log
Caught(error) ==
    [ret |-> Undefined,
     toasts |-> <<Toast("error", IMPORT_ERROR \o <<":", " ">> \o error.message)>>,
     logs |-> <<"error">>]

Returned(environment) ==
    [ret |-> ObjV(environment), toasts |-> <<>>, logs |-> <<>>]

\* import(filePath) from the point where the awaited
\* SwaggerParser.dereference(filePath) has settled with dereferenced: the
\* parsed document, or the error it rejects with
import(dereferenced) ==
    IF dereferenced.threw THEN Caught(dereferenced)
    ELSE IF isSwagger(dereferenced.value)
    THEN Returned(convertFromSwagger(dereferenced.value))
    ELSE LET parsedAPI == dereferenced.value
             v3 == isOpenAPIV3(parsedAPI)
         IN  IF v3.threw THEN Caught(v3)
             ELSE IF v3.value
             THEN LET converted == convertFromOpenAPIV3(parsedAPI)
                  IN  IF converted.threw THEN Caught(converted)
                      ELSE Returned(converted.value)
             ELSE [ret |-> Undefined,
                   toasts |-> <<Toast("warning", IMPORT_WRONG_VERSION)>>,
                   logs |-> <<>>]

(***************************************************************************)
(* convertToOpenAPIV3 and export                                           *)
(***************************************************************************)
\* endpoint.match(/:[a-zA-Z0-9_]+/g): every ":" followed by one or more
\* word characters, left to right, each as long as it can be (no match
\* gives null, which the code treats like the empty list)
RECURSIVE MatchPathParameters(_)
MatchPathParameters(endpoint) ==
    IF endpoint = <<>> THEN <<>>
    ELSE LET n == RunLength(Tail(endpoint), WordChars)
         IN  IF Head(endpoint) = ":" /\ n >= 1
             THEN <<SubSeq(endpoint, 1, n + 1)>>
                  \o MatchPathParameters(From(endpoint, n + 2))
             ELSE MatchPathParameters(Tail(endpoint))

\* endpoint.replace(/:([a-zA-Z0-9_]+)/g, '{$1}')
RECURSIVE ReplacePathParameters(_)
ReplacePathParameters(endpoint) ==
    IF endpoint = <<>> THEN <<>>
    ELSE LET n == RunLength(Tail(endpoint), WordChars)
         IN  IF Head(endpoint) = ":" /\ n >= 1
             THEN <<"{">> \o SubSeq(endpoint, 2, n + 1) \o <<"}">>
                  \o ReplacePathParameters(From(endpoint, n + 2))
             ELSE <<Head(endpoint)>> \o ReplacePathParameters(Tail(endpoint))

\* the key of paths under which a route is exported
ExportedPath(routeEndpoint) ==
    IF Len(MatchPathParameters(routeEndpoint)) > 0
    THEN <<"/">> \o ReplacePathParameters(routeEndpoint)
    ELSE <<"/">> \o routeEndpoint

\* the parameters array built from the matches
ExportedParameters(pathParamaters) ==
    [i \in 1..Len(pathParamaters) |->
        [name |-> Tail(pathParamaters[i]), in |-> "path",
         schema |-> [type |-> "string"], required |-> TRUE]]

\* whether a header is written to the exported headers object
IsExportedHeader(header) == ToLowerCase(header.key) # S_content_type

\* the reduce over [...environment.headers, ...routeResponse.headers]
RECURSIVE ExportedHeaders(_, _)
ExportedHeaders(all, headers) ==
    IF all = <<>> THEN headers
    ELSE ExportedHeaders(
            Tail(all),
            IF IsExportedHeader(Head(all))
            THEN ObjSet(headers, Head(all).key,
                        [schema |-> [type |-> "string"],
                         example |-> Head(all).value])
            ELSE headers)

ExportedResponse(environment, routeResponse) ==
    LET responseContentType ==
            GetRouteResponseContentType(environment, routeResponse)
    IN  [description |-> routeResponse.label,
         content |-> IF responseContentType.t = "string"
                        /\ responseContentType.s # ""
                     THEN <<[k |-> responseContentType.s, v |-> <<>>]>>
                     ELSE <<>>,
         headers |-> ExportedHeaders(
                         environment.headers \o routeResponse.headers, <<>>)]

NumToString(n) ==
    IF n < 0 THEN <<"-">> \o NatToString(0 - n) ELSE NatToString(n)

\* responses[routeResponse.statusCode.toString()] = val
SetResponse(responses, code, val) == ObjSet(responses, NumToString(code), val)

\* the reduce over route.responses
RECURSIVE ExportedResponses(_, _, _)
ExportedResponses(environment, routeResponses, responses) ==
    IF routeResponses = <<>> THEN responses
    ELSE ExportedResponses(
            environment, Tail(routeResponses),
            SetResponse(responses, Head(routeResponses).statusCode,
                        ExportedResponse(environment, Head(routeResponses))))

\* paths[endpoint][route.method] for one route
ExportedOperation(environment, route) ==
    LET pathParamaters == MatchPathParameters(route.endpoint)
        base == [description |-> route.documentation,
                 responses |-> ExportedResponses(environment, route.responses,
                                                 <<>>)]
    IN  IF Len(pathParamaters) > 0
        THEN [description |-> base.description, responses |-> base.responses,
              parameters |-> ExportedParameters(pathParamaters)]
        ELSE base

\* the reduce over environment.routes
RECURSIVE ExportedPaths(_, _, _)
ExportedPaths(environment, routes, paths) ==
    IF routes = <<>> THEN paths
    ELSE LET route == Head(routes)
             endpoint == ExportedPath(route.endpoint)
             item == IF HasKey(paths, endpoint) THEN ObjGet(paths, endpoint)
                     ELSE <<>>
         IN  ExportedPaths(
                environment, Tail(routes),
                ObjSet(paths, endpoint,
                       ObjSet(item, route.method,
                              ExportedOperation(environment, route))))

S_localhost == <<"l", "o", "c", "a", "l", "h", "o", "s", "t">>

\* `${https ? 'https' : 'http'}://localhost:${port}/${endpointPrefix}`
ServerUrl(environment) ==
    (IF environment.https THEN <<"h", "t", "t", "p", "s">>
     ELSE <<"h", "t", "t", "p">>)
    \o <<":", "/", "/">> \o S_localhost \o <<":">>
    \o NumToString(environment.port) \o <<"/">>
    \o StringOf(environment.endpointPrefix)

\* the document that convertToOpenAPIV3 serialises
convertToOpenAPIV3(environment) ==
    [openapi |-> StrV(<<"3", ".", "0", ".", "0">>),
     info |-> [title |-> environment.name, version |-> "1.0.0"],
     servers |-> <<[url |-> ServerUrl(environment)]>>,
     paths |-> ExportedPaths(environment, environment.routes, <<>>)]

\* export(environment): the document whose JSON text is returned
export(environment) ==
    [ret |-> ObjV(convertToOpenAPIV3(environment)), toasts |-> <<>>,
     logs |-> <<"info">>]

(***************************************************************************)
(* Inputs                                                                  *)
(***************************************************************************)
\* character strings used by the inputs
KEY200 == <<"2", "0", "0">>
KEY404 == <<"4", "0", "4">>
KEY2XX == <<"2", "X", "X">>
KEYdefault == <<"d", "e", "f", "a", "u", "l", "t">>
KEYabc == <<"a", "b", "c">>
KEY200abc == <<"2", "0", "0", "a", "b", "c">>
KEY404sp == <<"4", "0", "4", " ">>
KEYff200 == <<"\f", "2", "0", "0">>
KEY1 == <<"1">>
HXA == <<"X", "-", "A">>
HXB == <<"X", "-", "B">>
PATHa == <<"/", "a">>
PATHaid == <<"/", "a", "/", "{", "i", "d", "}">>
PATHab == <<"/", "a", "/", "{", "i", "d", "}", "/", "b", "/", "{", "b", "_", "2", "}">>
V300 == <<"3", ".", "0", ".", "0">>
V31 == <<"3", ".", "1", ".", "0">>
V20 == <<"2", ".", "0">>
HOSTexample == <<"a", "p", "i", ".", "e", "x", "a", "m", "p", "l", "e", ".", "c", "o", "m">>
HOSTexample8443 == <<"a", "p", "i", ".", "e", "x", "a", "m", "p", "l", "e", ".", "c", "o", "m", ":", "8", "4", "4", "3">>
URLh == <<"h", "t", "t", "p", ":", "/", "/", "h">>
URLhapi == <<"h", "t", "t", "p", "s", ":", "/", "/", "h", "/", "a", "p", "i", "/", "v", "1">>
URLhport == <<"h", "t", "t", "p", ":", "/", "/", "h", ":", "8", "0", "/", "a", "p", "i">>
URLhapiq == <<"h", "t", "t", "p", ":", "/", "/", "h", "/", "a", "p", "i", "?", "q", "=", "1", "#", "f">>
URLrel == <<"/", "v", "1">>
URLhb == <<"h", "t", "t", "p", ":", "/", "/", "h", "/", "{", "b", "}">>
URLhbapi == <<"h", "t", "t", "p", ":", "/", "/", "h", "/", "{", "b", "}", "/", "a", "p", "i", "/", "{", "c", "}">>
URLbhapi == <<"h", "t", "t", "p", ":", "/", "/", "{", "b", "}", "/", "a", "p", "i">>
URLhbc == <<"h", "t", "t", "p", ":", "/", "/", "h", "/", "{", "b", "}", "{", "c", "}">>
URLhctor == <<"h", "t", "t", "p", ":", "/", "/", "h", "/", "{", "c", "o", "n", "s", "t", "r", "u", "c", "t", "o", "r", "}">>
URLhash == <<"#", "f">>
URLah == <<"a", ":", "/", "/", "h">>
URLmailto == <<"m", "a", "i", "l", "t", "o", ":", "h">>
URLh88 == <<"h", "t", "t", "p", ":", "/", "/", "h", ":", "8", ":", "8", "/", "p">>
URLhsp == <<" ", "H", "T", "T", "P", ":", "/", "/", "h", "/", "a", " ", "b", "{", "}", "?", "q", " ">>
URLback == <<"h", "t", "t", "p", ":", "\\", "\\", "h", "\\", "p", "?", "\\">>
URLsp == <<" ">>
URLslashes == <<"/", "/", "/", "v", "1">>
URLcontrols == <<"U+000B", "/", "v", "1", "U+0001", " ">>
URLhtab == <<"h", "t", "t", "p", ":", "/", "/", "h", "\t", "x", "\n", ":", "8", "0", "/", "p", "\t">>
URLprototab == <<"h", ":", "\t", "h">>
URLxn == <<"h", "t", "t", "p", ":", "/", "/", "x", "n", "-", "-", "a", "/", "p">>
URLxnvalid == <<"h", "t", "t", "p", ":", "/", "/", "a", ".", "X", "N", "-", "-", "m", "n", "c", "h", "e", "n", "-", "3", "y", "a", "/", "p">>
URLnul == <<"h", "t", "t", "p", ":", "/", "/", "a", "U+0000", "b", "/", "p">>
URLlong == <<"h", "t", "t", "p", ":", "/", "/">> \o [i \in 1..(hostnameMaxLen + 1) |-> "a"]
URLipv6 == <<"h", "t", "t", "p", ":", "/", "/", "[", ":", ":", "1", "]", ":", "8", "0", "?", "q">>
URLbracket == <<"h", "t", "t", "p", ":", "/", "/", "[", "a", "/", "p">>
URLxndash == <<"h", "t", "t", "p", ":", "/", "/", "h", ".", "x", "n", "-", "-", "a", "-", "b", "-", "/", "p">>
URLxnempty == <<"h", "t", "t", "p", ":", "/", "/", "x", "n", "-", "-", "/", "p">>

MaxKeyLen == 4
MaxHostLen == 4
MaxEndpointLen == 4
MaxContentTypes == 3
MaxHeaders == 2
MaxResponses == 2

SeqsUpTo(S, n) == UNION {[1..k -> S] : k \in 0..n}

\* Object.keys order: the integer keys first, ascending, then the others
IsKeysOrder(keys) ==
    \A i, j \in 1..Len(keys) :
        i < j =>
            /\ keys[i] # keys[j]
            /\ (IsIndexKey(keys[j]) =>
                    /\ IsIndexKey(keys[i])
                    /\ DecimalLess(keys[i], keys[j]))

StatusKeyChars == {"0", "2", "X", " "}
StatusKeys == SeqsUpTo(StatusKeyChars, MaxKeyLen) \ {<<>>}
StatusKeySamples ==
    {KEY200, KEY404, KEY2XX, KEYdefault, KEYabc, KEY200abc, KEY404sp, KEYff200}

HeaderNames == {HXA, HXB}
ResponseSamples ==
    {[description |-> "OK"],
     [headers |-> <<[k |-> HXA, v |-> [type |-> "string"]]>>],
     [description |-> "OK",
      content |-> <<[k |-> "application/xml", v |-> <<>>],
                    [k |-> "application/json", v |-> <<>>]>>,
      headers |-> <<[k |-> HXB, v |-> [type |-> "string"]],
                    [k |-> HXA, v |-> [type |-> "string"]]>>]}

\* responses objects with one key of StatusKeys
KeyResponses ==
    {<<[k |-> key, v |-> [description |-> "OK"]]>> : key \in StatusKeys}

\* the response declared under a sample key
SampleResponse(key) ==
    IF key = KEY2XX
    THEN [headers |-> <<[k |-> HXA, v |-> [type |-> "string"]]>>]
    ELSE IF key = KEY404
    THEN [description |-> "NF",
          content |-> <<[k |-> "application/xml", v |-> <<>>]>>]
    ELSE [description |-> "OK"]

\* responses objects with up to MaxResponses sample keys, in Object.keys order
SampleResponses ==
    {[i \in 1..Len(keys) |-> [k |-> keys[i], v |-> SampleResponse(keys[i])]] :
        keys \in {x \in SeqsUpTo(StatusKeySamples, MaxResponses) :
                    IsKeysOrder(x)}}

Operations ==
    {[responses |-> o] : o \in SampleResponses}
    \cup {[summary |-> sm, description |-> "long", produces |-> pr,
           responses |-> <<[k |-> KEY200, v |-> r]>>] :
            sm \in {"", "short"},
            pr \in {<<>>, <<"application/xml">>,
                    <<"text/plain", "application/json">>},
            r \in ResponseSamples}

PathKeys == {PATHa, PATHaid}
MethodKeys == {S_get, S_post, S_trace, S_parameters}

PathsObjects ==
    {<<[k |-> PATHa, v |-> <<[k |-> S_get, v |-> [responses |-> o]]>>]>> :
        o \in KeyResponses}
    \cup {<<[k |-> PATHa, v |-> <<[k |-> m, v |-> op]>>]>> :
            m \in {S_get, S_trace}, op \in Operations}
    \cup {<<[k |-> p, v |-> <<[k |-> mm[1], v |-> op], [k |-> mm[2], v |-> op]>>],
            [k |-> PATHab, v |-> <<[k |-> mm[1], v |-> op]>>]>> :
            p \in PathKeys,
            mm \in {x \in MethodKeys \X MethodKeys : x[1] # x[2]},
            op \in {[responses |-> <<>>],
                    [responses |-> <<[k |-> KEY404, v |-> [description |-> "NF"]]>>]}}

Infos == {[title |-> "API", version |-> "1"], [title |-> "", version |-> "1"],
          [version |-> "1"]}
SimplePaths ==
    <<[k |-> PATHa, v |-> <<[k |-> S_get, v |-> [responses |-> <<>>]]>>]>>

OpenapiValues ==
    {StrV(V300), StrV(V31), StrV(V20), StrV(<<"3">>), StrV(<<>>),
     StrV(<<"3", "0">>), StrV(<<"4", ".", "3", ".">>), NumV(3), Null}

\* documents that differ in their version fields
VersionDocs ==
    {[info |-> i, paths |-> SimplePaths] : i \in Infos}
    \cup {[swagger |-> sw, info |-> i, paths |-> SimplePaths] :
            sw \in {StrV(V20), StrV(V300), NumV(2)}, i \in Infos}
    \cup {[openapi |-> oa, info |-> i, paths |-> SimplePaths] :
            oa \in OpenapiValues, i \in Infos}
    \cup {[swagger |-> StrV(V20), openapi |-> oa, info |-> [version |-> "1"],
           paths |-> SimplePaths] : oa \in OpenapiValues}

\* documents that differ in their routes
PathsDocs ==
    {[swagger |-> StrV(V20), info |-> [title |-> "API", version |-> "1"],
      paths |-> p] : p \in PathsObjects}
    \cup {[openapi |-> StrV(V300), info |-> [title |-> "API", version |-> "1"],
           paths |-> p] : p \in PathsObjects}

HostChars == {"h", ":", "0", "8"}
Hosts == SeqsUpTo(HostChars, MaxHostLen) \cup {HOSTexample, HOSTexample8443}
BasePaths == {<<>>, <<"/">>, <<"/", "v", "1">>, <<"v", "1">>}

\* Swagger documents that differ in host and basePath
SwaggerDocs ==
    {[swagger |-> StrV(V20), info |-> [version |-> "1"], paths |-> SimplePaths,
      host |-> h] : h \in Hosts}
    \cup {[swagger |-> StrV(V20), info |-> [version |-> "1"],
           paths |-> SimplePaths, basePath |-> b] : b \in BasePaths}
    \cup {[swagger |-> StrV(V20), info |-> [version |-> "1"],
           paths |-> SimplePaths, host |-> HOSTexample8443, basePath |-> b] :
            b \in BasePaths}

ServerUrls == {<<>>, URLh, URLhapi, URLhport, URLhapiq, URLrel, URLhb, URLhbapi,
               URLbhapi, URLhbc, URLhctor, URLhash, URLah, URLmailto, URLh88,
               URLhsp, URLback, URLsp, URLslashes, URLcontrols, URLhtab,
               URLprototab, URLxn, URLxnvalid, URLnul, URLlong, URLipv6,
               URLbracket, URLxndash, URLxnempty}
VariableObjects ==
    {[default |-> <<"v", "2">>], [default |-> <<>>], [enum |-> <<"v">>]}
ServerVariables ==
    {<<>>, <<[k |-> <<"c">>, v |-> [default |-> <<"x">>]]>>}
    \cup {<<[k |-> <<"b">>, v |-> vo]>> : vo \in VariableObjects}
    \cup {<<[k |-> <<"b">>, v |-> vo], [k |-> <<"c">>, v |-> wo]>> :
            vo \in VariableObjects, wo \in VariableObjects}
Servers ==
    {[description |-> "no url"]}
    \cup {[url |-> u] : u \in ServerUrls}
    \cup {[url |-> u, variables |-> vs] : u \in ServerUrls, vs \in ServerVariables}

\* OpenAPI 3 documents that differ in their servers
ServersDocs ==
    {[openapi |-> StrV(V300), info |-> [version |-> "1"], paths |-> SimplePaths]}
    \cup {[openapi |-> StrV(V300), info |-> [version |-> "1"],
           paths |-> SimplePaths, servers |-> ss] :
            ss \in {<<>>} \cup {<<sv>> : sv \in Servers}
                   \cup {<<sv, [url |-> URLhapi]>> : sv \in Servers}}

ImportDocs == VersionDocs \cup PathsDocs \cup SwaggerDocs \cup ServersDocs

ENDPOINTusers == <<"u", "s", "e", "r", "s", "/", ":", "i", "d", "/", "o", "r", "d", "e", "r", "s", "/", ":", "o", "r", "d", "e", "r", "I", "d">>
S_CONTENT_TYPE == <<"C", "O", "N", "T", "E", "N", "T", "-", "T", "Y", "P", "E">>

EndpointChars == {"a", ":", "/", "{", "}"}
Endpoints == SeqsUpTo(EndpointChars, MaxEndpointLen) \cup {ENDPOINTusers}

ExportHeaders ==
    {buildHeader(key, value) :
        key \in {S_ContentType, S_CONTENT_TYPE, HXA}, value \in {"v1", "v2"}}
    \cup {buildHeader(KEY1, "v1"), buildHeader(S___proto__, "v1")}

RouteOf(endpoint, method, responses) ==
    [buildRoute EXCEPT !.documentation = "doc", !.method = method,
                       !.endpoint = endpoint, !.responses = responses]
ResponseOf(statusCode, headers) ==
    [buildRouteResponse EXCEPT !.statusCode = statusCode, !.label = "label",
                               !.headers = headers]
EnvironmentOf(headers, routes) ==
    [buildEnvironment EXCEPT !.name = "Env", !.headers = headers,
                             !.routes = routes]

\* environments that differ in the endpoint of their route
EndpointEnvironments ==
    {EnvironmentOf(<<>>, <<RouteOf(e, S_get, <<ResponseOf(200, <<>>)>>)>>) :
        e \in Endpoints}

\* environments that differ in their headers and their response's headers
HeaderEnvironments ==
    {EnvironmentOf(eh, <<RouteOf(<<"a">>, S_get, <<ResponseOf(200, rh)>>)>>) :
        eh \in {<<>>, <<buildHeader(S_ContentType, "v1")>>,
                <<buildHeader(HXA, "v1")>>, <<buildHeader(KEY1, "v2")>>},
        rh \in SeqsUpTo(ExportHeaders, MaxHeaders)}

\* environments with several routes and responses
RoutesEnvironments ==
    {[EnvironmentOf(<<>>,
        <<RouteOf(e1, S_get, <<ResponseOf(404, <<>>), ResponseOf(200, <<>>)>>),
          RouteOf(e2, m, <<ResponseOf(200, <<>>), ResponseOf(200, <<>>)>>)>>)
      EXCEPT !.https = tls, !.endpointPrefix = StrV(px)] :
        e1 \in {<<"a">>, <<":", "a">>}, e2 \in {<<"a">>, <<":", "a">>, <<>>},
        m \in {S_get, S_post}, tls \in BOOLEAN, px \in {<<>>, <<"v", "1">>}}

\* environments whose responses differ in their status code
StatusEnvironments ==
    {EnvironmentOf(<<>>,
        <<RouteOf(<<"a">>, S_get,
                  <<ResponseOf(c1, <<>>), ResponseOf(c2, <<>>),
                    ResponseOf(c3, <<>>)>>)>>) :
        c1 \in {200, 0 - 1}, c2 \in {0 - 5, 404, 200}, c3 \in {0, 0 - 3, 100}}

ExportEnvironments ==
    EndpointEnvironments \cup HeaderEnvironments \cup RoutesEnvironments
    \cup StatusEnvironments

\* the environments exported while an import is suspended
ConcurrentEnvironments ==
    {EnvironmentOf(<<>>, <<RouteOf(<<":", "a">>, S_get, <<ResponseOf(200, <<>>)>>)>>)}
MaxConcurrent == 1

ContentTypeLists ==
    {Undefined}
    \cup {ArrV(a) :
            a \in SeqsUpTo({"application/json", "application/xml", "text/plain"},
                           MaxContentTypes)}
ResponseHeaderObjects ==
    {Undefined}
    \cup {ObjV([i \in 1..Len(ks) |-> [k |-> ks[i], v |-> [type |-> "string"]]]) :
            ks \in {x \in SeqsUpTo(HeaderNames, MaxHeaders) : IsKeysOrder(x)}}

(***************************************************************************)
(* The service as a state machine.  A call is made (Init, Reimport).       *)
(* export and buildResponseHeaders run to their return in one step.        *)
(* import is an async function: it runs up to its await (ImportStart),     *)
(* gives the control back, and runs from the settled promise to its end    *)
(* in a later turn of the event loop (ImportResume); in between, other     *)
(* calls can run on the service (ExportWhileAwaiting).                     *)
(***************************************************************************)
S_ENOENT == <<"E", "N", "O", "E", "N", "T">>
S_ParserError == <<"P", "a", "r", "s", "e", "r", "E", "r", "r", "o", "r">>

Calls ==
    {[op |-> "import", arg |-> Ok(d), exportOf |-> Undefined] : d \in ImportDocs}
    \cup {[op |-> "import", arg |-> Throw(m), exportOf |-> Undefined] :
            m \in {S_ENOENT, S_ParserError}}
    \cup {[op |-> "export", arg |-> e] : e \in ExportEnvironments}
    \cup {[op |-> "buildResponseHeaders", contentTypes |-> c,
           responseHeaders |-> h] :
            c \in ContentTypeLists, h \in ResponseHeaderObjects}

Init ==
    /\ call \in Calls
    /\ pc = "called"
    /\ ret = Undefined
    /\ toasts = <<>>
    /\ logs = <<>>
    /\ concurrent = <<>>

\* the call returns result.ret after sending result.toasts and result.logs
Return(result) ==
    /\ pc' = "returned"
    /\ ret' = result.ret
    /\ toasts' = toasts \o result.toasts
    /\ logs' = logs \o result.logs
    /\ UNCHANGED <<call, concurrent>>

\* import(filePath) up to its await: the info log, then the call to
\* SwaggerParser.dereference
ImportStart ==
    /\ pc = "called"
    /\ call.op = "import"
    /\ pc' = "awaiting"
    /\ logs' = Append(logs, "info")
    /\ UNCHANGED <<call, ret, toasts, concurrent>>

\* import(filePath) from its await on, where dereferencing the file has
\* settled with call.arg
ImportResume ==
    /\ pc = "awaiting"
    /\ Return(import(call.arg))

\* export(environment)
Export ==
    /\ pc = "called"
    /\ call.op = "export"
    /\ Return(export(call.arg))

\* export(environment) called while import is suspended at its await
ExportWhileAwaiting ==
    /\ pc = "awaiting"
    /\ Len(concurrent) < MaxConcurrent
    /\ \E environment \in ConcurrentEnvironments :
        LET result == export(environment)
        IN  /\ concurrent' = Append(concurrent, [arg |-> environment,
                                                 ret |-> result.ret])
            /\ toasts' = toasts \o result.toasts
            /\ logs' = logs \o result.logs
    /\ UNCHANGED <<call, ret, pc>>

\* buildResponseHeaders(contentTypes, responseHeaders)
BuildResponseHeaders ==
    /\ pc = "called"
    /\ call.op = "buildResponseHeaders"
    /\ Return([ret |-> ArrV(buildResponseHeaders(call.contentTypes,
                                                 call.responseHeaders)),
               toasts |-> <<>>, logs |-> <<>>])

\* the exported text is saved and given to import
Reimport ==
    /\ pc = "returned"
    /\ call.op = "export"
    /\ call' = [op |-> "import", arg |-> Ok(ret.o),
                exportOf |-> ObjV(call.arg)]
    /\ pc' = "called"
    /\ ret' = Undefined
    /\ UNCHANGED <<toasts, logs, concurrent>>

Next ==
    \/ ImportStart
    \/ ImportResume
    \/ Export
    \/ ExportWhileAwaiting
    \/ BuildResponseHeaders
    \/ Reimport

Spec == Init /\ [][Next]_vars

(***************************************************************************)
(* Properties                                                              *)
(***************************************************************************)
\* import has returned an Environment
Imported == pc = "returned" /\ call.op = "import" /\ ret.t = "object"
Exported == pc = "returned" /\ call.op = "export"

\* the operations of a document that createRoutes turns into routes, in
\* the order of the routes
RECURSIVE RecognisedOperations(_)
RecognisedOperations(paths) ==
    IF paths = <<>> THEN <<>>
    ELSE LET Recognised(m) == m.k \in methods
             ops == SelectSeq(Head(paths).v, Recognised)
         IN  [i \in 1..Len(ops) |-> ops[i].v]
             \o RecognisedOperations(Tail(paths))

JsonHeaderOnly == <<[key |-> S_ContentType, value |-> "application/json"]>>

\* C1: every imported route has at least one response, and a route of an
\* operation none of whose response keys is retained (or that declares no
\* response) has exactly one response, whose headers are exactly
\* [Content-Type: application/json].
C1_RoutesHaveAResponse ==
    Imported =>
        LET ops == RecognisedOperations(call.arg.value.paths)
            routes == ret.o.routes
        IN  /\ Len(routes) = Len(ops)
            /\ \A i \in 1..Len(routes) :
                /\ Len(routes[i].responses) >= 1
                /\ (\A j \in 1..Len(ops[i].responses) :
                        ~IsSupportedStatus(ops[i].responses[j].k))
                   => /\ Len(routes[i].responses) = 1
                      /\ routes[i].responses[1].headers = JsonHeaderOnly

\* an import whose operation declares responses that are all filtered out
C1_Witness ==
    /\ Imported
    /\ Len(ret.o.routes) = 1
    /\ LET ops == RecognisedOperations(call.arg.value.paths)
       IN  /\ Len(ops) = 1
           /\ Len(ops[1].responses) = 2
           /\ ObjectKeys(ops[1].responses) = <<KEY2XX, KEYdefault>>
           /\ "headers" \in DOMAIN ops[1].responses[1].v
    /\ ret.o.routes[1].responses[1].headers = JsonHeaderOnly

\* a key that is exactly the decimal text of a supported status code
IsExactStatusKey(key) == \E code \in statusCodes : key = NatToString(code)

\* C2: a response key that is not exactly the decimal text of a supported
\* status code produces no response: the responses of a route are the
\* fallback alone, or one per exact key, in order, with that key's code.
C2_InexactKeysProduceNoResponse ==
    Imported =>
        LET ops == RecognisedOperations(call.arg.value.paths)
            routes == ret.o.routes
        IN  \A i \in 1..Len(routes) :
                LET exact == SelectSeq(ObjectKeys(ops[i].responses),
                                       IsExactStatusKey)
                    responses == routes[i].responses
                IN  \/ exact = <<>> /\ responses = FallbackResponses
                    \/ /\ Len(responses) = Len(exact)
                       /\ \A j \in 1..Len(exact) :
                            NatToString(responses[j].statusCode) = exact[j]

\* the import of a document that export wrote for a one-route environment
ReimportedOneRoute ==
    /\ Imported
    /\ call.exportOf.t = "object"
    /\ Len(call.exportOf.o.routes) = 1

\* ":" only introduces parameter names: each is followed by a word character
ColonsIntroduceNames(endpoint) ==
    \A i \in 1..Len(endpoint) :
        endpoint[i] = ":" => i < Len(endpoint) /\ endpoint[i + 1] \in WordChars

\* "{", one or more word characters, "}" somewhere in the string
HasBraceGroup(str) ==
    \E i, j \in 1..Len(str) :
        /\ i + 1 < j
        /\ str[i] = "{"
        /\ str[j] = "}"
        /\ \A m \in (i + 1)..(j - 1) : str[m] \in WordChars

\* the text after a ":" with its leading name put in braces
BracedSegment(segment) ==
    LET n == RunLength(segment, WordChars)
    IN  <<"{">> \o SubSeq(segment, 1, n) \o <<"}">> \o From(segment, n + 1)

\* each ":name" of the endpoint replaced by "{name}", after a "/"
ClaimedPathKey(endpoint) ==
    LET parts == Split(endpoint, ":")
    IN  <<"/">> \o parts[1]
        \o Flatten([i \in 1..(Len(parts) - 1) |-> BracedSegment(parts[i + 1])])

\* the path round trip on the endpoint of an exported, then imported, route
RoundTrips(endpoint) ==
    /\ call.arg.value.paths[1].k = ClaimedPathKey(endpoint)
    /\ Len(ret.o.routes) = 1
    /\ ret.o.routes[1].endpoint = endpoint

\* C3, as claimed: for every endpoint without a leading slash in which ":"
\* only introduces parameter names, the exported path key is the endpoint
\* with each ":name" as "{name}" after a "/", and importing it gives back
\* the endpoint.
C3_RoundTripAsClaimed ==
    ReimportedOneRoute =>
        LET endpoint == call.exportOf.o.routes[1].endpoint
        IN  (/\ (endpoint # <<>> => Head(endpoint) # "/")
             /\ ColonsIntroduceNames(endpoint))
            => RoundTrips(endpoint)

\* C3, amended: the same for the endpoints that, in addition, hold no
\* "{name}" group of their own.
C3_RoundTrip ==
    ReimportedOneRoute =>
        LET endpoint == call.exportOf.o.routes[1].endpoint
        IN  (/\ (endpoint # <<>> => Head(endpoint) # "/")
             /\ ColonsIntroduceNames(endpoint)
             /\ ~HasBraceGroup(endpoint))
            => RoundTrips(endpoint)

\* users/:id/orders/:orderId exported, imported again and unchanged
C3_Witness ==
    /\ ReimportedOneRoute
    /\ call.exportOf.o.routes[1].endpoint = ENDPOINTusers
    /\ ret.o.routes[1].endpoint = ENDPOINTusers
    /\ call.arg.value.paths[1].v[1].v.parameters[2].name
        = <<"o", "r", "d", "e", "r", "I", "d">>

\* C4: buildResponseHeaders returns Content-Type first, with the value
\* application/json when the content types are absent, empty or hold
\* application/json at any position and the first content type otherwise,
\* then one header with an empty value per declared header name, in order.
C4_ResponseHeaders ==
    (pc = "returned" /\ call.op = "buildResponseHeaders") =>
        LET types == call.contentTypes
            names == IF call.responseHeaders.t = "undefined" THEN <<>>
                     ELSE ObjectKeys(call.responseHeaders.o)
            json == \/ types.t = "undefined"
                    \/ types.a = <<>>
                    \/ \E i \in 1..Len(types.a) : types.a[i] = "application/json"
        IN  /\ Len(ret.a) = 1 + Len(names)
            /\ ret.a[1].key = S_ContentType
            /\ ret.a[1].value = IF json THEN "application/json" ELSE types.a[1]
            /\ \A i \in 1..Len(names) :
                ret.a[i + 1] = [key |-> names[i], value |-> ""]

\* application/json in second position wins over the first content type
C4_Witness ==
    /\ pc = "returned"
    /\ call.op = "buildResponseHeaders"
    /\ call.contentTypes = ArrV(<<"application/xml", "application/json">>)
    /\ call.responseHeaders = ObjV(<<[k |-> HXB, v |-> [type |-> "string"]],
                                     [k |-> HXA, v |-> [type |-> "string"]]>>)
    /\ ret.a = <<[key |-> S_ContentType, value |-> "application/json"],
                 [key |-> HXB, value |-> ""], [key |-> HXA, value |-> ""]>>

\* the exported response object of response j of route i, when no later
\* route or response overwrites it
ExportedResponseOf(environment, i, j) ==
    LET route == environment.routes[i]
        item == ObjGet(ret.o.paths, ExportedPath(route.endpoint))
        operation == ObjGet(item, route.method)
    IN  ObjGet(operation.responses,
               NumToString(route.responses[j].statusCode))

IsLastWritten(environment, i, j) ==
    LET route == environment.routes[i]
    IN  /\ \A m \in (i + 1)..Len(environment.routes) :
            \/ environment.routes[m].method # route.method
            \/ ExportedPath(environment.routes[m].endpoint)
                # ExportedPath(route.endpoint)
        /\ \A m \in (j + 1)..Len(route.responses) :
            route.responses[m].statusCode # route.responses[j].statusCode

\* C5: no exported headers object has a key that is content-type in any
\* case, and every other header key of environment.headers followed by the
\* response's headers is in it, with the value of its last occurrence as
\* its example.
C5_ExportedHeaders ==
    Exported =>
        /\ \A p \in 1..Len(ret.o.paths) :
            \A m \in 1..Len(ret.o.paths[p].v) :
                LET responses == ret.o.paths[p].v[m].v.responses
                IN  \A r \in 1..Len(responses) :
                        \A h \in 1..Len(responses[r].v.headers) :
                            ToLowerCase(responses[r].v.headers[h].k)
                                # S_content_type
        /\ \A i \in 1..Len(call.arg.routes) :
            \A j \in 1..Len(call.arg.routes[i].responses) :
                IsLastWritten(call.arg, i, j) =>
                    LET all == call.arg.headers
                               \o call.arg.routes[i].responses[j].headers
                        headers == ExportedResponseOf(call.arg, i, j).headers
                    IN  \A h \in 1..Len(all) :
                            (/\ ToLowerCase(all[h].key) # S_content_type
                             /\ \A g \in (h + 1)..Len(all) :
                                    all[g].key # all[h].key)
                            => /\ HasKey(headers, all[h].key)
                               /\ ObjGet(headers, all[h].key).example
                                    = all[h].value

\* import of a file, not of an exported document, has returned
ImportReturned ==
    /\ pc = "returned"
    /\ call.op = "import"
    /\ call.exportOf.t = "undefined"
    /\ ~call.arg.threw

\* the document that import was given
ParsedAPI == call.arg.value

\* the document carries neither a swagger field nor an openapi field whose
\* value is a string that starts with "3."
IsWrongVersion(parsedAPI) ==
    /\ "swagger" \notin DOMAIN parsedAPI
    /\ \/ "openapi" \notin DOMAIN parsedAPI
       \/ parsedAPI.openapi.t # "string"
       \/ ~StartsWith(parsedAPI.openapi.s, <<"3", ".">>)

\* C6: for every such document import returns no Environment and sends
\* exactly one notification, the warning IMPORT_WRONG_VERSION, no error.
C6_WrongVersionWarns ==
    (ImportReturned /\ IsWrongVersion(ParsedAPI)) =>
        /\ ret = Undefined
        /\ toasts = <<Toast("warning", IMPORT_WRONG_VERSION)>>

\* the host is hostname:port with a port segment made of decimal digits
HasNumericPort(host) ==
    LET parts == Split(host, ":")
    IN  /\ Len(parts) = 2
        /\ parts[1] # <<>>
        /\ parts[2] # <<>>
        /\ RunLength(parts[2], DigitChars) = Len(parts[2])

\* C7: on Swagger import a numeric port segment of host is the
\* Environment's port, and without host or without a port segment the port
\* is the factory's.
C7_PortIsTheHostPort ==
    (ImportReturned /\ isSwagger(ParsedAPI)) =>
        /\ ("host" \notin DOMAIN ParsedAPI) => ret.o.port = buildEnvironment.port
        /\ ("host" \in DOMAIN ParsedAPI /\ Len(Split(ParsedAPI.host, ":")) = 1)
            => ret.o.port = buildEnvironment.port
        /\ ("host" \in DOMAIN ParsedAPI /\ HasNumericPort(ParsedAPI.host))
            => ret.o.port = DigitsValue(Split(ParsedAPI.host, ":")[2], 0)

\* the document names no server url
HasNoServerUrl(parsedAPI) ==
    \/ "servers" \notin DOMAIN parsedAPI
    \/ parsedAPI.servers = <<>>
    \/ "url" \notin DOMAIN parsedAPI.servers[1]

\* the characters of a URI reference (RFC 3986, unreserved, reserved and
\* "%")
UriChars ==
    LowerChars \cup UpperChars \cup DigitChars
        \cup {"-", ".", "_", "~", ":", "/", "?", "#", "[", "]", "@", "!", "$",
              "&", "'", "(", ")", "*", "+", ",", ";", "=", "%"}

\* the url is written with the characters of a URI reference only
IsUriReference(url) == \A i \in 1..Len(url) : url[i] \in UriChars

\* the url without its scheme: a scheme is what precedes a ":" that comes
\* before any "/", "?" or "#" (RFC 3986, appendix B)
WithoutScheme(url) ==
    LET scheme == UpTo(url, {":", "/", "?", "#"})
    IN  IF scheme # <<>> /\ Len(url) > Len(scheme) /\ url[Len(scheme) + 1] = ":"
        THEN From(url, Len(scheme) + 2) ELSE url

\* the path component of a url by RFC 3986, appendix B: what lies between
\* the authority (after "//" up to the next "/", "?" or "#") and the first
\* "?" or "#"
PathComponent(url) ==
    LET hierPart == WithoutScheme(url)
        afterAuthority ==
            IF StartsWith(hierPart, <<"/", "/">>)
            THEN From(hierPart, 3 + Len(UpTo(From(hierPart, 3), {"/", "?", "#"})))
            ELSE hierPart
    IN  UpTo(afterAuthority, {"?", "#"})

\* the first half of C8: without a server url the endpointPrefix of the
\* Environment that import returns is the factory's
C8_NoServerKeepsDefault ==
    (/\ ImportReturned /\ ~isSwagger(ParsedAPI) /\ ret.t = "object"
     /\ HasNoServerUrl(ParsedAPI))
    => ret.o.endpointPrefix = buildEnvironment.endpointPrefix

\* the second half of C8: with a server url (here a URI reference without
\* placeholder) the endpointPrefix of the Environment that import returns
\* is the url's path component without a leading slash
C8_PrefixIsThePathComponent ==
    (/\ ImportReturned /\ ~isSwagger(ParsedAPI) /\ ret.t = "object"
     /\ ~HasNoServerUrl(ParsedAPI)
     /\ IsUriReference(ParsedAPI.servers[1].url))
    => LET path == PathComponent(ParsedAPI.servers[1].url)
       IN  ret.o.endpointPrefix
            = StrV(IF StartsWith(path, <<"/">>) THEN Tail(path) ELSE path)

\* C8: on OpenAPI 3 import without a server url the endpointPrefix stays
\* the factory's; with a url it is the url's path component without a
\* leading slash.
C8_PrefixDefaultWithoutServer ==
    C8_NoServerKeepsDefault /\ C8_PrefixIsThePathComponent

\* the names between braces in a server url
Placeholders(url) ==
    {SubSeq(url, ij[1] + 1, ij[2] - 1) :
        ij \in {x \in (1..Len(url)) \X (1..Len(url)) :
                    /\ x[1] + 1 < x[2]
                    /\ url[x[1]] = "{"
                    /\ url[x[2]] = "}"
                    /\ \A m \in (x[1] + 1)..(x[2] - 1) : url[m] \in WordChars}}

\* the server declares the variable with a default
HasDefault(server, name) ==
    /\ "variables" \in DOMAIN server
    /\ HasKey(server.variables, name)
    /\ "default" \in DOMAIN ObjGet(server.variables, name)

\* C9: when a placeholder of the server url has no declared default (the
\* variable is not declared, or is declared without default), import
\* returns no Environment and sends an error notification.
C9_MissingDefaultFails ==
    (/\ ImportReturned
     /\ ~isSwagger(ParsedAPI)
     /\ isOpenAPIV3(ParsedAPI) = Ok(TRUE)
     /\ ~HasNoServerUrl(ParsedAPI)
     /\ \E name \in Placeholders(ParsedAPI.servers[1].url) :
            ~HasDefault(ParsedAPI.servers[1], name))
    => /\ ret = Undefined
       /\ \E i \in 1..Len(toasts) : toasts[i].type = "error"

\* the parameter names of an endpoint
ParameterNames(endpoint) ==
    {Tail(MatchPathParameters(endpoint)[i]) :
        i \in 1..Len(MatchPathParameters(endpoint))}

\* C10: the exported operation of a route with path parameters has a
\* parameters array with exactly one entry per unique parameter name, each
\* {name, in: "path", schema: {type: "string"}, required: true}, and the
\* operation of a route without ":name" has no parameters field.
C10_OneParameterPerName ==
    (Exported /\ Len(call.arg.routes) = 1) =>
        LET endpoint == call.arg.routes[1].endpoint
            operation == ret.o.paths[1].v[1].v
        IN  IF ParameterNames(endpoint) = {}
            THEN "parameters" \notin DOMAIN operation
            ELSE /\ "parameters" \in DOMAIN operation
                 /\ Len(operation.parameters) = Cardinality(ParameterNames(endpoint))
                 /\ \A i \in 1..Len(operation.parameters) :
                        /\ operation.parameters[i].name \in ParameterNames(endpoint)
                        /\ operation.parameters[i]
                            = [name |-> operation.parameters[i].name,
                               in |-> "path", schema |-> [type |-> "string"],
                               required |-> TRUE]
                 /\ \A i, j \in 1..Len(operation.parameters) :
                        i # j => operation.parameters[i].name
                                    # operation.parameters[j].name

=============================================================================
